---- MODULE Spec2Model ----
(***************************************************************************)
(* Model of the custom compliance framework resource                       *)
(* (internal/cloud_compliance/custom_framework_resource.go and             *)
(* custom_framework_resource_helpers.go).                                  *)
(*                                                                         *)
(* The persisted Terraform state, the remote store (one framework slot and *)
(* its controls) and the position of the running handler are the state.    *)
(* Every remote call that changes the remote store is one step; the local  *)
(* processing that follows it, up to the next such call, belongs to the    *)
(* same step, and so do the queries that precede it. The sequence of       *)
(* queries readControlsForFramework issues is one step.                    *)
(*                                                                         *)
(* A null or unknown string is "" (what ValueString() returns for it); a   *)
(* null or unknown set is [known |-> FALSE, elems |-> {}]; a null bool is  *)
(* "null".                                                                 *)
(***************************************************************************)
EXTENDS Integers, Sequences, FiniteSets, TLC

VARIABLES
    tfstate,    \* the persisted Terraform state of the resource
    rFw,        \* the remote store's framework
    rCtl,       \* the remote store's controls (a set of records)
    nextFw,     \* number of framework identifiers the remote store has issued
    nextCtl,    \* number of control identifiers the remote store has issued
    pc,         \* position of the running handler, "idle" between operations
    req,        \* the running operation's request: its name, plan and prior state
    loc,        \* the running handler's local variables
    diags,      \* the running handler's diagnostics
    calls,      \* the remote calls the running operation has issued so far
    nOps,       \* operations started so far
    nFail       \* remote calls that have failed so far

vars == <<tfstate, rFw, rCtl, nextFw, nextCtl, pc, req, loc, diags, calls, nOps, nFail>>

----------------------------------------------------------------------------
(* Bounds *)

MaxControls == 2    \* controls in one declared tree
MaxOps == 2         \* operations in one run
MaxFail == 1        \* failing remote calls in one run

FwNames == {"F1", "F2"}
SecNames == {"S1", "S2"}
CtlNames == {"A", "B"}
Descs == {"d1"}
RuleSets == {{}, {"r1", "r2"}}

\* identifiers the remote store hands out, in this order
FwIds == <<"f1", "f2">>
CtlIds == <<"c1", "c2", "c3", "c4">>

----------------------------------------------------------------------------
(* Values *)

NullSet == [known |-> FALSE, elems |-> {}]
KnownSet(s) == [known |-> TRUE, elems |-> s]

NoState == [exists |-> FALSE, id |-> "", name |-> "", active |-> "null", sections |-> NullSet]
NoFw == [exists |-> FALSE, id |-> "", name |-> "", active |-> FALSE]

BoolValue(b) == IF b THEN "true" ELSE "false"
\* types.Bool.ValueBool(): false for null and unknown
ValueBool(a) == a = "true"

NoDiags == [err |-> FALSE, warn |-> FALSE]
AddError(d) == [d EXCEPT !.err = TRUE]
\* a warning that is recorded as an error
AddWarningAsError(d) == [d EXCEPT !.err = TRUE]

AddWarning(d) == [d EXCEPT !.warn = TRUE]

\* A remote call: the operation, whether it succeeded, its arguments, `n`,
\* which numbers the calls of one operation that are otherwise equal, and
\* `notFound`: the remote store reported the framework as not found.
NoCall == [op |-> "", ok |-> TRUE, id |-> "", ids |-> {}, fw |-> "", sec |-> "",
           name |-> "", desc |-> "", rules |-> {}, active |-> FALSE, n |-> 1,
           notFound |-> FALSE, requirement |-> ""]

NoControl == [id |-> "", name |-> "", description |-> "", rules |-> NullSet]
NoPending == [sec |-> "", key |-> "", control |-> NoControl]

NoLoc == [fw |-> NoFw, sections |-> <<>>, existing |-> <<>>, secTodo |-> {}, curSec |-> "",
          ctlTodo |-> {}, pending |-> NoPending, updated |-> {}, delTodo |-> {},
          rejected |-> FALSE]

----------------------------------------------------------------------------
(* Identity generator *)

\* a generator that hashes the section name alone
generateUUIDOfSection(frameworkName, sectionName) == sectionName

\* UUIDv5 over "<framework>:<section>" in a fixed namespace; the hash is taken
\* as collision-free, so the identifier stands for the hashed byte string.
generateDeterministicUUID(frameworkName, sectionName) ==
    frameworkName \o ":" \o sectionName

----------------------------------------------------------------------------
(* Tree codec *)

\* the key convertTerraformSetToControlsMap stores a control under
ControlKey(control) == IF control.id = "" THEN control.name ELSE control.id

convertTerraformSetToControlsMap(controlsSet) ==
    IF ~controlsSet.known THEN <<>>
    ELSE [k \in {ControlKey(c) : c \in controlsSet.elems} |->
            CHOOSE c \in controlsSet.elems : ControlKey(c) = k]

convertTerraformSetToSectionsMap(sectionsSet) ==
    IF ~sectionsSet.known THEN <<>>
    ELSE [n \in {s.name : s \in sectionsSet.elems} |->
            CHOOSE s \in sectionsSet.elems : s.name = n]

convertControlsMapToTerraformSet(controlsMap) ==
    KnownSet({ [id |-> controlsMap[k].id, name |-> controlsMap[k].name,
                description |-> controlsMap[k].description,
                rules |-> controlsMap[k].rules] : k \in DOMAIN controlsMap })

\* an encoding that gives the absent collection for the empty map
convertSectionsMapToTerraformSetOrNull(sections) ==
    IF DOMAIN sections = {} THEN NullSet
    ELSE KnownSet({ [id |-> sections[n].id, name |-> n, controls |-> sections[n].controls]
                    : n \in DOMAIN sections })

convertSectionsMapToTerraformSet(sections) ==
    KnownSet({ [id |-> sections[n].id, name |-> n, controls |-> sections[n].controls]
               : n \in DOMAIN sections })

----------------------------------------------------------------------------
(* Declared configurations *)

RuleChoices == {NullSet} \cup {KnownSet(r) : r \in RuleSets}

Positions == SecNames \X CtlNames

\* the declared controls: a function from <<section, control>> places to the
\* control's description and rules, over at most MaxControls places
FlatTrees ==
    UNION { [P -> [description : Descs, rules : RuleChoices]] :
            P \in {Q \in SUBSET Positions : Cardinality(Q) <= MaxControls} }

SectionsOf(tree) == {p[1] : p \in DOMAIN tree}

\* the sections collection of a declaration: `ids` gives each declared control
\* its planned identifier ("" when unknown), `empties` are sections declared
\* with no control
SectionsValue(tree, ids, empties) ==
    KnownSet({ [id |-> "", name |-> s,
                controls |-> KnownSet({ [id |-> ids[p], name |-> p[2],
                                         description |-> tree[p].description,
                                         rules |-> tree[p].rules]
                                        : p \in {q \in DOMAIN tree : q[1] = s} })]
               : s \in SectionsOf(tree) \cup empties })

NoIds(tree) == [p \in DOMAIN tree |-> ""]

\* The scope of the declarations. A declaration of two or more controls
\* gives every control its rules (a set, possibly empty) and comes with the
\* scalar attributes in `same` and no empty section; the scalar attributes
\* vary, and a section is left empty, with at most one control that has the
\* empty rule set; a control's rules are left out only when it is alone.
SingleTree(tree) == Cardinality(DOMAIN tree) <= 1

SmallTree(tree) ==
    /\ SingleTree(tree)
    /\ \A p \in DOMAIN tree : tree[p].rules = KnownSet({})

PlainTree(tree) == \A p \in DOMAIN tree : tree[p].rules.known

InScope(scalars, same, tree, empties) ==
    \/ SmallTree(tree)
    \/ /\ scalars = same
       /\ empties = {}
       /\ SingleTree(tree) \/ PlainTree(tree)

FirstScalars == [name |-> "F1", active |-> FALSE]
Scalars == [name : FwNames, active : BOOLEAN]

----------------------------------------------------------------------------
(* Validation *)

\* a ValidateConfig that looks at the number of sections, not of their controls
ValidateConfigCountsSections(sections) ==
    /\ sections.known
    /\ Cardinality(DOMAIN convertTerraformSetToSectionsMap(sections)) = 0

\* a ValidateConfig that reports nothing
ValidateConfigAcceptsAll(sections) == FALSE

\* ValidateConfig: TRUE when it reports "Empty Section Not Allowed"
ValidateConfigRejects(sections) ==
    /\ sections.known
    /\ LET sectionsMap == convertTerraformSetToSectionsMap(sections)
       IN \E n \in DOMAIN sectionsMap :
            Cardinality(DOMAIN convertTerraformSetToControlsMap(sectionsMap[n].controls)) = 0

\* a validation of active that forgets the current value
validateActiveIgnoringCurrent(currentActive, newActive) ==
    IF ~ValueBool(newActive) THEN AddError(NoDiags) ELSE NoDiags

\* a validation of active with the test of the current value negated
validateActiveNegated(currentActive, newActive) ==
    IF currentActive # "null" /\ ~ValueBool(currentActive) /\ ~ValueBool(newActive)
    THEN AddError(NoDiags)
    ELSE NoDiags

validateActiveFieldTransition(currentActive, newActive) ==
    IF currentActive # "null" /\ ValueBool(currentActive) /\ ~ValueBool(newActive)
    THEN AddError(NoDiags)
    ELSE NoDiags

\* an Update that goes on after the validation of active reported an error
AfterActiveValidationGoesOn(d) == "update_fw"

\* Update after the validation of active: it returns on an error
AfterActiveValidation(d) == IF d.err THEN "done" ELSE "update_fw"

\* a handler that goes on after the framework call reported an error
AfterFrameworkCallGoesOn(d, next) == next

\* Create and Update after the framework call: they return on an error,
\* else go on to `next`
AfterFrameworkCall(d, next) == IF d.err THEN "done" ELSE next

----------------------------------------------------------------------------
(* The remote store *)

\* QueryComplianceControls filtered by framework name
RemoteQueryControls(frameworkName) ==
    IF rFw.exists /\ rFw.name = frameworkName
    THEN {c.id : c \in {x \in rCtl : x.fw = rFw.id}}
    ELSE {}

\* QueryRule filtered by framework name, section name and requirement
RemoteQueryRules(frameworkName, sectionName, requirement) ==
    IF rFw.exists /\ rFw.name = frameworkName
    THEN UNION {c.rules : c \in {x \in rCtl : /\ x.fw = rFw.id
                                              /\ x.section = sectionName
                                              /\ x.requirement = requirement}}
    ELSE {}

RemoteHas(id) == \E c \in rCtl : c.id = id

AddCall(S, call) ==
    S \cup {[call EXCEPT !.n = 1 + Cardinality({x \in S : [x EXCEPT !.n = 1] = call})]}

RECURSIVE AddCalls(_, _)
AddCalls(S, T) ==
    IF T = {} THEN S
    ELSE LET c == CHOOSE x \in T : TRUE IN AddCalls(AddCall(S, c), T \ {c})

Issue(call) == calls' = AddCall(calls, call)

CanFail == nFail < MaxFail

----------------------------------------------------------------------------
(* readControlsForFramework *)

\* a readControlsForFramework that derives every section identifier afresh
ReadSectionIDDerived(existingSections, frameworkName, sectionName) ==
    generateDeterministicUUID(frameworkName, sectionName)

\* the section identifier readControlsForFramework gives a section
ReadSectionID(existingSections, frameworkName, sectionName) ==
    IF sectionName \in DOMAIN existingSections /\ existingSections[sectionName].id # ""
    THEN existingSections[sectionName].id
    ELSE generateDeterministicUUID(frameworkName, sectionName)

\* readControlWithRules
readControlWithRules(control, frameworkName) ==
    [id |-> control.id, name |-> control.name, description |-> control.description,
     rules |-> KnownSet(RemoteQueryRules(frameworkName, control.section, control.requirement))]

\* the sections built from the controls `kept`, one per section and name
ReadSections(kept, frameworkName, existingState) ==
    LET existingSections == convertTerraformSetToSectionsMap(existingState.sections)
        names == {c.section : c \in kept}
        sectionsMap ==
            [n \in names |->
               [id |-> ReadSectionID(existingSections, frameworkName, n),
                name |-> n,
                controls |-> KnownSet({readControlWithRules(c, frameworkName)
                                       : c \in {x \in kept : x.section = n}})]]
    IN convertSectionsMapToTerraformSet(sectionsMap)

\* sectionToControlsMap[section][name] keeps one control of every section and
\* name, the one the remote store lists last
KeptChoices(apiControls) ==
    {K \in SUBSET apiControls :
        \A c \in apiControls :
            Cardinality({k \in K : k.section = c.section /\ k.name = c.name}) = 1}

\* a read that stops querying rules at the first query that fails
RuleQueryCallsUntilFailure(apiControls, frameworkName, F) ==
    {[NoCall EXCEPT !.op = "ruleQuery", !.id = c.id, !.name = frameworkName,
                    !.sec = c.section, !.requirement = c.requirement,
                    !.ok = c.id \notin F]
     : c \in {x \in apiControls : F = {} \/ x.id \in F}}

\* the QueryRule calls of readControlWithRules, one for every control, by
\* framework name, section name and requirement; those of `F` fail
RuleQueryCalls(apiControls, frameworkName, F) ==
    {[NoCall EXCEPT !.op = "ruleQuery", !.id = c.id, !.name = frameworkName,
                    !.sec = c.section, !.requirement = c.requirement,
                    !.ok = c.id \notin F]
     : c \in apiControls}

\* The possible results: [ok, sections, log, fails]. `budget` is the number of
\* calls that may still fail.
readControlsForFramework(framework, existingState, budget) ==
    LET frameworkName == framework.name
        controlIDs == RemoteQueryControls(frameworkName)
        apiControls == {c \in rCtl : c.id \in controlIDs}
        query == [NoCall EXCEPT !.op = "ctlQuery", !.name = frameworkName, !.ids = controlIDs]
        get == [NoCall EXCEPT !.op = "ctlGet", !.ids = controlIDs]
        ruleQueries(F) == RuleQueryCalls(apiControls, frameworkName, F)
    IN  (IF budget > 0
         THEN {[ok |-> FALSE, sections |-> NullSet, fails |-> 1,
                log |-> {[query EXCEPT !.ok = FALSE, !.ids = {}]}]}
         ELSE {})
        \cup
        (IF controlIDs = {}
         THEN {[ok |-> TRUE, sections |-> convertSectionsMapToTerraformSet(<<>>),
                fails |-> 0, log |-> {query}]}
         ELSE (IF budget > 0
               THEN {[ok |-> FALSE, sections |-> NullSet, fails |-> 1,
                      log |-> {query, [get EXCEPT !.ok = FALSE]}]}
               ELSE {})
              \cup
              {[ok |-> FALSE, sections |-> NullSet, fails |-> Cardinality(F),
                log |-> {query, get} \cup ruleQueries(F)]
               : F \in {G \in SUBSET controlIDs : G # {} /\ Cardinality(G) <= budget}}
              \cup
              {[ok |-> TRUE, sections |-> ReadSections(K, frameworkName, existingState),
                fails |-> 0, log |-> {query, get} \cup ruleQueries({})]
               : K \in KeptChoices(apiControls)})

----------------------------------------------------------------------------
(* The loop over the declared sections and their controls, shared by        *)
(* createControlsForFramework and processControlUpdates: sections in any    *)
(* order (Go map iteration), a section's controls together; a section is    *)
(* skipped once the diagnostics hold an error                               *)

ControlsOfSection(l, s) == convertTerraformSetToControlsMap(l.sections[s].controls)

Candidates(l, d) ==
    IF l.ctlTodo # {}
    THEN {<<l.curSec, k>> : k \in l.ctlTodo}
    ELSE IF d.err THEN {}
    ELSE UNION { {<<s, k>> : k \in DOMAIN ControlsOfSection(l, s)} : s \in l.secTodo }

\* the loop variables once control `k` of section `s` has been taken up
Take(l, s, k) ==
    IF l.ctlTodo # {}
    THEN [l EXCEPT !.ctlTodo = @ \ {k}]
    ELSE [l EXCEPT !.curSec = s, !.secTodo = @ \ {s},
                   !.ctlTodo = DOMAIN ControlsOfSection(l, s) \ {k}]

----------------------------------------------------------------------------
(* Create: the plan's sections and the state it writes *)

\* a Create that derives the section identifiers with the names swapped
CreateSectionsMapSwapped(plan) ==
    LET m == convertTerraformSetToSectionsMap(plan.sections)
    IN [n \in DOMAIN m |->
          IF m[n].id = ""
          THEN [m[n] EXCEPT !.id = generateDeterministicUUID(n, plan.name)]
          ELSE m[n]]

\* the plan's sections as a map, with the derived section identifiers
CreateSectionsMap(plan) ==
    LET m == convertTerraformSetToSectionsMap(plan.sections)
    IN [n \in DOMAIN m |->
          IF m[n].id = ""
          THEN [m[n] EXCEPT !.id = generateDeterministicUUID(plan.name, n)]
          ELSE m[n]]

\* sections[sectionName] after createControlsForFramework: a section whose
\* controls were created holds them with their new identifiers
CreatedSectionsMap(l) ==
    [n \in DOMAIN l.sections |->
        LET made == {u.control : u \in {x \in l.updated : x.sec = n}}
        IN IF made # {}
           THEN [l.sections[n] EXCEPT !.controls = KnownSet(made)]
           ELSE l.sections[n]]

\* wrap(framework): the scalar attributes of the state
wrap(model, framework) ==
    [model EXCEPT !.exists = TRUE, !.id = framework.id, !.name = framework.name,
                  !.active = BoolValue(framework.active)]

\* the state Create writes with State.Set
CreateFinalState(plan, l) ==
    [wrap(plan, l.fw) EXCEPT
        !.sections = IF plan.sections.known
                     THEN convertSectionsMapToTerraformSet(CreatedSectionsMap(l))
                     ELSE plan.sections]

----------------------------------------------------------------------------
(* Update: the reconciliation's lookups *)

\* buildExistingControlsMap
buildExistingControlsMap(stateSections) ==
    [n \in DOMAIN stateSections |-> convertTerraformSetToControlsMap(stateSections[n].controls)]

\* buildControlsByIDMap
buildControlsByIDMap(existingControls) ==
    LET all == UNION { {existingControls[n][k] : k \in DOMAIN existingControls[n]}
                       : n \in DOMAIN existingControls }
        withID == {c \in all : c.id # ""}
    IN [i \in {c.id : c \in withID} |-> CHOOSE c \in withID : c.id = i]

\* a deleteRemovedControls that keeps every control of the state whose
\* section the plan still has
ControlStillExistsBySection(planSections, stateSectionName, stateControlName) ==
    stateSectionName \in DOMAIN planSections

\* deleteRemovedControls: the state's controls it deletes, as
\* <<state section, key, identifier>>
ControlStillExists(planSections, stateSectionName, stateControlName) ==
    /\ stateSectionName \in DOMAIN planSections
    /\ stateControlName \in
         DOMAIN convertTerraformSetToControlsMap(planSections[stateSectionName].controls)

RemovedControls(existingControls, planSections) ==
    UNION { { <<n, k, existingControls[n][k].id>> :
                k \in {j \in DOMAIN existingControls[n] :
                         ~ControlStillExists(planSections, n, j)} }
            : n \in DOMAIN existingControls }

\* an Update that writes the plan's sections, not the re-read ones
UpdateFinalStateFromPlan(plan, framework, sections) == wrap(plan, framework)

\* the state Update writes with State.Set
UpdateFinalState(plan, framework, sections) ==
    [wrap(plan, framework) EXCEPT !.sections = sections]

----------------------------------------------------------------------------
(* The handlers go on after a control of the loop is done *)

Continue(l, d) ==
    /\ diags' = d
    /\ IF Candidates(l, d) # {}
       THEN /\ pc' = "ctl"
            /\ loc' = l
            /\ tfstate' = tfstate
       ELSE LET out == [l EXCEPT !.curSec = "", !.secTodo = {}]  \* the loop is over
            IN IF req.op = "Create"
               THEN /\ pc' = "done"
                    /\ loc' = out
                    /\ tfstate' = IF d.err THEN tfstate ELSE CreateFinalState(req.plan, l)
               ELSE \* Update: processControlUpdates has returned
                    /\ tfstate' = tfstate
                    /\ IF d.err
                       THEN pc' = "done" /\ loc' = out
                       ELSE LET del == RemovedControls(l.existing, l.sections)
                            IN /\ loc' = [out EXCEPT !.delTodo = del]
                               /\ pc' = IF del # {} THEN "update_del" ELSE "update_read"

----------------------------------------------------------------------------
(* Create *)

\* what a configuration can declare for sections: absent, or a collection
ConfigSections(scalars) ==
    {NullSet} \cup
    UNION { { SectionsValue(t, NoIds(t), e) :
                e \in {x \in SUBSET SecNames : InScope(scalars, FirstScalars, t, x)} }
            : t \in FlatTrees }

CreateStart ==
    /\ pc = "idle"
    /\ ~tfstate.exists
    /\ nOps < MaxOps
    /\ \E sc \in Scalars : \E sections \in ConfigSections(sc) :
         /\ req' = [op |-> "Create",
                    plan |-> [NoState EXCEPT !.name = sc.name, !.active = BoolValue(sc.active),
                                             !.sections = sections],
                    state |-> tfstate]
         /\ IF ValidateConfigRejects(sections)
            THEN /\ pc' = "done"
                 /\ diags' = AddError(NoDiags)
                 /\ loc' = [NoLoc EXCEPT !.rejected = TRUE]
            ELSE /\ pc' = "create_fw"
                 /\ diags' = NoDiags
                 /\ loc' = NoLoc
    /\ calls' = {}
    /\ nOps' = nOps + 1
    /\ UNCHANGED <<tfstate, rFw, rCtl, nextFw, nextCtl, nFail>>

\* a Create that writes nothing to the state before the controls are created
EarlyStateNotWritten(framework) == NoState

\* the state after "Set the ID early for proper cleanup"
EarlyState(framework) == [NoState EXCEPT !.exists = TRUE, !.id = framework.id]

\* CreateComplianceFramework, the early SetAttribute of the identifier, and
\* the decoding of the plan's sections
CreateFramework ==
    /\ pc = "create_fw"
    /\ LET plan == req.plan
           call == [NoCall EXCEPT !.op = "fwCreate", !.name = plan.name,
                                  !.active = ValueBool(plan.active)]
       IN \/ /\ CanFail
             /\ Issue([call EXCEPT !.ok = FALSE])
             /\ nFail' = nFail + 1
             /\ diags' = AddError(diags)
             /\ pc' = AfterFrameworkCall(diags', "ctl")
             /\ UNCHANGED <<tfstate, rFw, rCtl, nextFw, nextCtl, loc>>
          \/ /\ nextFw < Len(FwIds)
             /\ LET framework == [exists |-> TRUE, id |-> FwIds[nextFw + 1],
                                  name |-> plan.name, active |-> ValueBool(plan.active)]
                    early == EarlyState(framework)
                    l == IF plan.sections.known
                         THEN [loc EXCEPT !.fw = framework,
                                          !.sections = CreateSectionsMap(plan),
                                          !.secTodo = DOMAIN CreateSectionsMap(plan)]
                         ELSE [loc EXCEPT !.fw = framework]
                IN /\ Issue([call EXCEPT !.id = framework.id])
                   /\ rFw' = framework
                   /\ nextFw' = nextFw + 1
                   /\ loc' = l
                   /\ IF Candidates(l, diags) # {}
                      THEN pc' = "ctl" /\ tfstate' = early
                      ELSE pc' = "done" /\ tfstate' = CreateFinalState(plan, l)
                   /\ UNCHANGED <<rCtl, nextCtl, diags, nFail>>
    /\ UNCHANGED <<req, nOps>>

----------------------------------------------------------------------------
(* The control loop's steps *)

\* does processControlUpdates take the declared control as an existing one?
MatchesExisting(l, planControl) ==
    /\ req.op = "Update"
    /\ planControl.id # ""
    /\ planControl.id \in DOMAIN buildControlsByIDMap(l.existing)

\* a createSingleControlAndReturn that assigns every rule set that is not null
NeedsRuleAssignmentWhenKnown(control) == control.rules.known

\* createSingleControlAndReturn: are rules assigned to the created control?
NeedsRuleAssignment(control) == control.rules.known /\ control.rules.elems # {}

\* createSingleControlAndReturn: CreateComplianceControl
CreateControl ==
    /\ pc = "ctl"
    /\ \E c \in Candidates(loc, diags) :
         LET s == c[1]
             k == c[2]
             control == ControlsOfSection(loc, s)[k]
             l == Take(loc, s, k)
             call == [NoCall EXCEPT !.op = "ctlCreate", !.fw = loc.fw.id, !.sec = s,
                                    !.name = k, !.desc = control.description]
         IN /\ ~MatchesExisting(loc, control)
            /\ \/ /\ CanFail
                  /\ Issue([call EXCEPT !.ok = FALSE])
                  /\ nFail' = nFail + 1
                  /\ Continue(l, AddError(diags))
                  /\ UNCHANGED <<rCtl, nextCtl>>
               \/ /\ nextCtl < Len(CtlIds)
                  /\ LET id == CtlIds[nextCtl + 1]
                         made == [id |-> id, name |-> k,
                                  description |-> control.description,
                                  rules |-> control.rules]
                     IN /\ Issue([call EXCEPT !.id = id])
                        /\ rCtl' = rCtl \cup {[id |-> id, fw |-> loc.fw.id, section |-> s,
                                               name |-> k, requirement |-> id,
                                               description |-> control.description,
                                               rules |-> {}]}
                        /\ nextCtl' = nextCtl + 1
                        /\ IF NeedsRuleAssignment(control)
                           THEN /\ pc' = "new_rules"
                                /\ loc' = [l EXCEPT !.pending =
                                             [sec |-> s, key |-> k, control |-> made]]
                                /\ UNCHANGED <<tfstate, diags>>
                           ELSE Continue(
                                  IF diags.err THEN l
                                  ELSE [l EXCEPT !.updated = @ \cup {[sec |-> s, control |-> made]}],
                                  diags)
                        /\ UNCHANGED nFail
    /\ UNCHANGED <<rFw, nextFw, req, nOps>>

\* createSingleControlAndReturn: ReplaceControlRules for the created control
AssignRules ==
    /\ pc = "new_rules"
    /\ LET made == loc.pending.control
           l == [loc EXCEPT !.pending = NoPending]
           call == [NoCall EXCEPT !.op = "rules", !.id = made.id, !.rules = made.rules.elems]
       IN \/ /\ CanFail
             /\ Issue([call EXCEPT !.ok = FALSE])
             /\ nFail' = nFail + 1
             /\ Continue(l, AddError(diags))
             /\ UNCHANGED rCtl
          \/ /\ Issue(call)
             /\ rCtl' = {IF c.id = made.id THEN [c EXCEPT !.rules = made.rules.elems] ELSE c
                         : c \in rCtl}
             /\ Continue(
                  IF diags.err THEN l
                  ELSE [l EXCEPT !.updated = @ \cup {[sec |-> loc.pending.sec, control |-> made]}],
                  diags)
             /\ UNCHANGED nFail
    /\ UNCHANGED <<rFw, nextFw, nextCtl, req, nOps>>

\* updateExistingControl: UpdateComplianceControl with the control's name
UpdateExistingControl ==
    /\ pc = "ctl"
    /\ \E c \in Candidates(loc, diags) :
         LET s == c[1]
             controlName == c[2]
             planControl == ControlsOfSection(loc, s)[controlName]
             existingControl == buildControlsByIDMap(loc.existing)[planControl.id]
             l0 == Take(loc, s, controlName)
             result == [id |-> existingControl.id, name |-> controlName,
                        description |-> planControl.description,
                        rules |-> planControl.rules]
             l1 == [l0 EXCEPT !.updated = @ \cup {[sec |-> s, control |-> result]}]
             call == [NoCall EXCEPT !.op = "ctlUpdate", !.id = existingControl.id,
                                    !.name = controlName]
             after(d) ==
                IF existingControl.rules # planControl.rules
                THEN /\ pc' = "upd_rules"
                     /\ loc' = [l1 EXCEPT !.pending =
                                  [sec |-> s, key |-> controlName, control |-> result]]
                     /\ diags' = d
                     /\ tfstate' = tfstate
                ELSE Continue(l1, d)
         IN /\ MatchesExisting(loc, planControl)
            /\ \/ /\ CanFail \/ ~RemoteHas(existingControl.id)
                  /\ Issue([call EXCEPT !.ok = FALSE])
                  /\ nFail' = IF RemoteHas(existingControl.id) THEN nFail + 1 ELSE nFail
                  /\ after(AddError(diags))
                  /\ UNCHANGED rCtl
               \/ /\ RemoteHas(existingControl.id)
                  /\ Issue(call)
                  /\ rCtl' = {IF x.id = existingControl.id
                              THEN [x EXCEPT !.name = controlName] ELSE x : x \in rCtl}
                  /\ after(diags)
                  /\ UNCHANGED nFail
    /\ UNCHANGED <<rFw, nextFw, nextCtl, req, nOps>>

\* updateControlRules: ReplaceControlRules with the plan's rules
UpdateControlRules ==
    /\ pc = "upd_rules"
    /\ LET control == loc.pending.control
           l == [loc EXCEPT !.pending = NoPending]
           planRuleIds == IF control.rules.known THEN control.rules.elems ELSE {}
           call == [NoCall EXCEPT !.op = "rules", !.id = control.id, !.rules = planRuleIds]
       IN \/ /\ CanFail \/ ~RemoteHas(control.id)
             /\ Issue([call EXCEPT !.ok = FALSE])
             /\ nFail' = IF RemoteHas(control.id) THEN nFail + 1 ELSE nFail
             /\ Continue(l, AddError(diags))
             /\ UNCHANGED rCtl
          \/ /\ RemoteHas(control.id)
             /\ Issue(call)
             /\ rCtl' = {IF x.id = control.id THEN [x EXCEPT !.rules = planRuleIds] ELSE x
                         : x \in rCtl}
             /\ Continue(l, diags)
             /\ UNCHANGED nFail
    /\ UNCHANGED <<rFw, nextFw, nextCtl, req, nOps>>

----------------------------------------------------------------------------
(* deleteControlsForFramework: the query by framework name, then one       *)
(* DeleteComplianceControl call with every identifier found. The possible  *)
(* results: [ok, warn, deleted, log, fails].                               *)

\* a deleteControlsForFramework that goes on with no identifier when the
\* query fails
deleteControlsForFrameworkUnlisted(frameworkName, budget) ==
    LET controlIds == RemoteQueryControls(frameworkName)
        query == [NoCall EXCEPT !.op = "ctlQuery", !.name = frameworkName, !.ids = controlIds]
        delete == [NoCall EXCEPT !.op = "ctlDelete", !.ids = controlIds]
    IN  (IF budget > 0
         THEN {[ok |-> TRUE, warn |-> TRUE, deleted |-> {}, fails |-> 1,
                log |-> {[query EXCEPT !.ok = FALSE, !.ids = {}],
                         [delete EXCEPT !.ids = {}]}]}
         ELSE {})
        \cup
        {[ok |-> TRUE, warn |-> FALSE, deleted |-> controlIds, fails |-> 0,
          log |-> {query, delete}]}

\* a deleteControlsForFramework that deletes the controls one call each
deleteControlsForFrameworkOneByOne(frameworkName, budget) ==
    LET controlIds == RemoteQueryControls(frameworkName)
        query == [NoCall EXCEPT !.op = "ctlQuery", !.name = frameworkName, !.ids = controlIds]
    IN  {[ok |-> TRUE, warn |-> FALSE, deleted |-> controlIds, fails |-> 0,
          log |-> {query} \cup {[NoCall EXCEPT !.op = "ctlDelete", !.ids = {i}]
                                 : i \in controlIds}]}

\* a deleteControlsForFramework that reports the failed deletion as an error
deleteControlsForFrameworkStrict(frameworkName, budget) ==
    LET controlIds == RemoteQueryControls(frameworkName)
        query == [NoCall EXCEPT !.op = "ctlQuery", !.name = frameworkName, !.ids = controlIds]
        delete == [NoCall EXCEPT !.op = "ctlDelete", !.ids = controlIds]
    IN  (IF budget > 0
         THEN {[ok |-> FALSE, warn |-> FALSE, deleted |-> {}, fails |-> 1,
                log |-> {[query EXCEPT !.ok = FALSE, !.ids = {}]}],
               [ok |-> FALSE, warn |-> FALSE, deleted |-> {}, fails |-> 1,
                log |-> {query, [delete EXCEPT !.ok = FALSE]}]}
         ELSE {})
        \cup
        {[ok |-> TRUE, warn |-> FALSE, deleted |-> controlIds, fails |-> 0,
          log |-> {query, delete}]}

deleteControlsForFramework(frameworkName, budget) ==
    LET controlIds == RemoteQueryControls(frameworkName)
        query == [NoCall EXCEPT !.op = "ctlQuery", !.name = frameworkName, !.ids = controlIds]
        delete == [NoCall EXCEPT !.op = "ctlDelete", !.ids = controlIds]
    IN  (IF budget > 0
         THEN {[ok |-> FALSE, warn |-> FALSE, deleted |-> {}, fails |-> 1,
                log |-> {[query EXCEPT !.ok = FALSE, !.ids = {}]}],
               [ok |-> TRUE, warn |-> TRUE, deleted |-> {}, fails |-> 1,
                log |-> {query, [delete EXCEPT !.ok = FALSE]}]}
         ELSE {})
        \cup
        {[ok |-> TRUE, warn |-> FALSE, deleted |-> controlIds, fails |-> 0,
          log |-> {query, delete}]}

----------------------------------------------------------------------------
(* Update *)

StateControls(state) ==
    UNION {s.controls.elems : s \in state.sections.elems}

\* the identifiers a plan can carry for the declared controls: unknown, or
\* the identifier of a control of the prior state, no identifier twice
IdAssignments(tree, state) ==
    LET stateIds == {c.id : c \in StateControls(state)} \ {""}
    IN {f \in [DOMAIN tree -> stateIds \cup {""}] :
          \A p, q \in DOMAIN tree : (p # q /\ f[p] # "") => f[p] # f[q]}

PlanSections(state, scalars) ==
    LET same == [name |-> state.name, active |-> ValueBool(state.active)]
    IN {NullSet} \cup
       UNION { { SectionsValue(t, f, e) :
                   f \in IdAssignments(t, state),
                   e \in {x \in SUBSET SecNames : InScope(scalars, same, t, x)} }
               : t \in FlatTrees }

UpdateStart ==
    /\ pc = "idle"
    /\ tfstate.exists
    /\ tfstate.name # ""
    /\ nOps < MaxOps
    /\ \E sc \in Scalars : \E sections \in PlanSections(tfstate, sc) :
         LET plan == [tfstate EXCEPT !.name = sc.name, !.active = BoolValue(sc.active),
                                     !.sections = sections]
         IN /\ req' = [op |-> "Update", plan |-> plan, state |-> tfstate]
            /\ IF ValidateConfigRejects(sections)
               THEN /\ pc' = "done"
                    /\ diags' = AddError(NoDiags)
                    /\ loc' = [NoLoc EXCEPT !.rejected = TRUE]
               ELSE /\ loc' = NoLoc
                    /\ diags' = validateActiveFieldTransition(tfstate.active, plan.active)
                    /\ pc' = AfterActiveValidation(diags')
    /\ calls' = {}
    /\ nOps' = nOps + 1
    /\ UNCHANGED <<tfstate, rFw, rCtl, nextFw, nextCtl, nFail>>

\* UpdateComplianceFramework, then the decoding of the plan's and the state's
\* sections
UpdateFramework ==
    /\ pc = "update_fw"
    /\ LET plan == req.plan
           state == req.state
           found == rFw.exists /\ rFw.id = plan.id
           call == [NoCall EXCEPT !.op = "fwUpdate", !.id = plan.id, !.name = plan.name,
                                  !.active = ValueBool(plan.active)]
       IN \/ /\ CanFail \/ ~found
             /\ Issue([call EXCEPT !.ok = FALSE])
             /\ nFail' = IF found THEN nFail + 1 ELSE nFail
             /\ diags' = AddError(diags)
             /\ pc' = AfterFrameworkCall(diags', "update_read")
             /\ UNCHANGED <<tfstate, rFw, loc>>
          \/ /\ found
             /\ LET framework == [rFw EXCEPT !.name = plan.name,
                                             !.active = ValueBool(plan.active)]
                    planSections == convertTerraformSetToSectionsMap(plan.sections)
                    stateSections == convertTerraformSetToSectionsMap(state.sections)
                    l == IF plan.sections.known
                         THEN [loc EXCEPT !.fw = framework,
                                          !.sections = planSections,
                                          !.existing = buildExistingControlsMap(stateSections),
                                          !.secTodo = DOMAIN planSections]
                         ELSE [loc EXCEPT !.fw = framework]
                IN /\ Issue(call)
                   /\ rFw' = framework
                   /\ UNCHANGED nFail
                   /\ IF plan.sections.known
                      THEN Continue(l, diags)
                      ELSE /\ loc' = l
                           /\ diags' = diags
                           /\ IF state.sections.known
                              THEN pc' = "update_delall" /\ tfstate' = tfstate
                              ELSE /\ pc' = "done"
                                   /\ tfstate' = UpdateFinalState(plan, framework, plan.sections)
    /\ UNCHANGED <<rCtl, nextFw, nextCtl, req, nOps>>

\* deleteRemovedControls: DeleteComplianceControl for one control of the state
DeleteRemovedControl ==
    /\ pc = "update_del"
    /\ \E r \in loc.delTodo :
         LET controlID == r[3]
             l == [loc EXCEPT !.delTodo = @ \ {r}]
             call == [NoCall EXCEPT !.op = "ctlDelete", !.ids = {controlID}]
         IN /\ loc' = l
            /\ pc' = IF l.delTodo # {} THEN "update_del" ELSE "update_read"
            /\ \/ /\ CanFail \/ ~RemoteHas(controlID)
                  /\ Issue([call EXCEPT !.ok = FALSE])
                  /\ nFail' = IF RemoteHas(controlID) THEN nFail + 1 ELSE nFail
                  /\ diags' = AddWarning(diags)
                  /\ UNCHANGED rCtl
               \/ /\ RemoteHas(controlID)
                  /\ Issue(call)
                  /\ rCtl' = {x \in rCtl : x.id # controlID}
                  /\ UNCHANGED <<nFail, diags>>
    /\ UNCHANGED <<tfstate, rFw, nextFw, nextCtl, req, nOps>>

\* Update without declared sections: deleteControlsForFramework(plan.Name)
UpdateDeleteAll ==
    /\ pc = "update_delall"
    /\ \E o \in deleteControlsForFramework(req.plan.name, MaxFail - nFail) :
         /\ calls' = AddCalls(calls, o.log)
         /\ nFail' = nFail + o.fails
         /\ rCtl' = {x \in rCtl : x.id \notin o.deleted}
         /\ diags' = [err |-> diags.err \/ ~o.ok, warn |-> diags.warn \/ o.warn]
         /\ pc' = "done"
         /\ tfstate' = IF o.ok
                       THEN UpdateFinalState(req.plan, loc.fw, req.plan.sections)
                       ELSE tfstate
    /\ UNCHANGED <<rFw, nextFw, nextCtl, req, loc, nOps>>

\* the read back of the controls that ends Update
UpdateReadBack ==
    /\ pc = "update_read"
    /\ \E o \in readControlsForFramework(loc.fw, req.state, MaxFail - nFail) :
         /\ calls' = AddCalls(calls, o.log)
         /\ nFail' = nFail + o.fails
         /\ diags' = IF o.ok THEN diags ELSE AddError(diags)
         /\ pc' = "done"
         /\ tfstate' = IF o.ok
                       THEN UpdateFinalState(req.plan, loc.fw, o.sections)
                       ELSE tfstate
    /\ UNCHANGED <<rFw, rCtl, nextFw, nextCtl, req, loc, nOps>>

----------------------------------------------------------------------------
(* Read *)

\* handleAPIError for the framework calls: the diagnostics of an error of the
\* remote store. A framework that Read does not find is no error to surface.
handleAPIError(notFound, operation) ==
    IF notFound /\ operation = "read" THEN NoDiags ELSE AddError(NoDiags)

\* validateAPIResponse: the diagnostics of a reply, an error when the payload
\* carries errors
validateAPIResponse(payloadErrors) ==
    IF payloadErrors THEN AddError(NoDiags) ELSE NoDiags

\* a Read that leaves the state of a framework it did not find
RemoveResourceForgotten(state) == state

\* resp.State.RemoveResource
RemoveResource(state) == NoState

ReadStart ==
    /\ pc = "idle"
    /\ tfstate.exists
    /\ nOps < MaxOps
    /\ req' = [op |-> "Read", plan |-> NoState, state |-> tfstate]
    /\ pc' = "read_fw"
    /\ loc' = NoLoc
    /\ diags' = NoDiags
    /\ calls' = {}
    /\ nOps' = nOps + 1
    /\ UNCHANGED <<tfstate, rFw, rCtl, nextFw, nextCtl, nFail>>

\* GetComplianceFrameworks
ReadFramework ==
    /\ pc = "read_fw"
    /\ LET state == req.state
           found == rFw.exists /\ rFw.id = state.id
           call == [NoCall EXCEPT !.op = "fwGet", !.id = state.id]
       IN \/ /\ CanFail
             /\ found
             /\ Issue([call EXCEPT !.ok = FALSE])
             /\ nFail' = nFail + 1
             /\ diags' = AddError(diags)
             /\ pc' = "done"
             /\ UNCHANGED <<tfstate, loc>>
          \/ \* not found, as a NotFound error or as a reply without resources:
             \* the resource is removed from the state
             /\ ~found
             /\ \E isError \in BOOLEAN :
                  LET d == IF isError THEN handleAPIError(TRUE, "read")
                           ELSE validateAPIResponse(FALSE)
                  IN /\ Issue([call EXCEPT !.ok = ~isError, !.notFound = TRUE])
                     /\ diags' = [err |-> diags.err \/ d.err, warn |-> diags.warn \/ d.warn]
                     /\ tfstate' = IF isError \/ ~d.err THEN RemoveResource(tfstate)
                                   ELSE tfstate
             /\ pc' = "done"
             /\ UNCHANGED <<nFail, loc>>
          \/ /\ found
             /\ Issue(call)
             /\ loc' = [loc EXCEPT !.fw = rFw]
             /\ pc' = "read_ctl"
             /\ UNCHANGED <<tfstate, nFail, diags>>
    /\ UNCHANGED <<rFw, rCtl, nextFw, nextCtl, req, nOps>>

\* a Read that always sets the sections it read
SetsSectionsAlways(sectionsMap, state) == TRUE

\* Read: are the sections it read set in the state? Only when there are some
\* or the state had sections before
SetsSections(sectionsMap, state) ==
    sectionsMap.elems # {} \/ state.sections.known

\* readControlsForFramework and State.Set
ReadControls ==
    /\ pc = "read_ctl"
    /\ \E o \in readControlsForFramework(loc.fw, req.state, MaxFail - nFail) :
         LET state == wrap(req.state, loc.fw)
         IN /\ calls' = AddCalls(calls, o.log)
            /\ nFail' = nFail + o.fails
            /\ diags' = IF o.ok THEN diags ELSE AddError(diags)
            /\ pc' = "done"
            /\ tfstate' = IF ~o.ok THEN tfstate
                          ELSE IF SetsSections(o.sections, state)
                          THEN [state EXCEPT !.sections = o.sections]
                          ELSE state
    /\ UNCHANGED <<rFw, rCtl, nextFw, nextCtl, req, loc, nOps>>

----------------------------------------------------------------------------
(* Delete *)

DeleteStart ==
    /\ pc = "idle"
    /\ tfstate.exists
    /\ nOps < MaxOps
    /\ req' = [op |-> "Delete", plan |-> NoState, state |-> tfstate]
    /\ pc' = "delete_ctl"
    /\ loc' = NoLoc
    /\ diags' = NoDiags
    /\ calls' = {}
    /\ nOps' = nOps + 1
    /\ UNCHANGED <<tfstate, rFw, rCtl, nextFw, nextCtl, nFail>>

\* deleteControlsForFramework(state.Name)
DeleteControls ==
    /\ pc = "delete_ctl"
    /\ \E o \in deleteControlsForFramework(req.state.name, MaxFail - nFail) :
         /\ calls' = AddCalls(calls, o.log)
         /\ nFail' = nFail + o.fails
         /\ rCtl' = {x \in rCtl : x.id \notin o.deleted}
         /\ diags' = [err |-> diags.err \/ ~o.ok, warn |-> diags.warn \/ o.warn]
         /\ pc' = IF o.ok THEN "delete_fw" ELSE "done"
    /\ UNCHANGED <<tfstate, rFw, nextFw, nextCtl, req, loc, nOps>>

\* a Delete that reports the framework it did not find as an error
NotFoundOnDeleteIsError(d) == AddError(d)

\* Delete's diagnostics after DeleteComplianceFrameworkNotFound: unchanged
NotFoundOnDelete(d) == d

\* DeleteComplianceFramework; a Delete without error removes the state
DeleteFramework ==
    /\ pc = "delete_fw"
    /\ LET state == req.state
           found == rFw.exists /\ rFw.id = state.id
           call == [NoCall EXCEPT !.op = "fwDelete", !.id = state.id]
       IN \/ /\ CanFail
             /\ found
             /\ Issue([call EXCEPT !.ok = FALSE])
             /\ nFail' = nFail + 1
             /\ diags' = AddError(diags)
             /\ UNCHANGED <<tfstate, rFw>>
          \/ \* not found: taken as already deleted
             /\ ~found
             /\ Issue([call EXCEPT !.ok = FALSE, !.notFound = TRUE])
             /\ diags' = NotFoundOnDelete(diags)
             /\ tfstate' = IF diags'.err THEN tfstate ELSE NoState
             /\ UNCHANGED <<nFail, rFw>>
          \/ /\ found
             /\ Issue(call)
             /\ rFw' = NoFw
             /\ tfstate' = NoState
             /\ UNCHANGED <<nFail, diags>>
    /\ pc' = "done"
    /\ UNCHANGED <<rCtl, nextFw, nextCtl, req, loc, nOps>>

----------------------------------------------------------------------------
(* The framework is deleted in the remote store by someone else, with its   *)
(* controls, between two operations                                         *)

FrameworkVanishes ==
    /\ pc = "idle"
    /\ rFw.exists
    /\ nOps < MaxOps
    /\ rFw' = NoFw
    /\ rCtl' = {}
    /\ UNCHANGED <<tfstate, nextFw, nextCtl, pc, req, loc, diags, calls, nOps, nFail>>

----------------------------------------------------------------------------
(* The handler returns *)

NoReq == [op |-> "", plan |-> NoState, state |-> NoState]

Return ==
    /\ pc = "done"
    /\ pc' = "idle"
    /\ req' = NoReq
    /\ loc' = NoLoc
    /\ diags' = NoDiags
    /\ calls' = {}
    /\ UNCHANGED <<tfstate, rFw, rCtl, nextFw, nextCtl, nOps, nFail>>

----------------------------------------------------------------------------

Init ==
    /\ tfstate = NoState
    /\ rFw = NoFw
    /\ rCtl = {}
    /\ nextFw = 0
    /\ nextCtl = 0
    /\ pc = "idle"
    /\ req = NoReq
    /\ loc = NoLoc
    /\ diags = NoDiags
    /\ calls = {}
    /\ nOps = 0
    /\ nFail = 0

Next ==
    \/ CreateStart
    \/ CreateFramework
    \/ CreateControl
    \/ AssignRules
    \/ UpdateStart
    \/ UpdateFramework
    \/ UpdateExistingControl
    \/ UpdateControlRules
    \/ DeleteRemovedControl
    \/ UpdateDeleteAll
    \/ UpdateReadBack
    \/ ReadStart
    \/ ReadFramework
    \/ ReadControls
    \/ DeleteStart
    \/ DeleteControls
    \/ DeleteFramework
    \/ FrameworkVanishes
    \/ Return

Spec == Init /\ [][Next]_vars

----------------------------------------------------------------------------
(* The tree codec on its own: a tree is given as maps, the sections by     *)
(* section name and a section's controls by control name; it is encoded to *)
(* the sections collection and decoded again                               *)

\* the controls maps over the names of CtlNames: every control with its
\* rules, and with its identifier when `observed`
ControlMaps(observed) ==
    UNION { { [n \in N |-> [id |-> IF observed THEN "id-" \o n ELSE "",
                            name |-> n, description |-> "d1", rules |-> KnownSet(r[n])]]
              : r \in [N -> RuleSets] }
            : N \in SUBSET CtlNames }

\* the trees of one shape, no section without controls: a section with its
\* identifier when `observed`
CodecTrees(observed) ==
    UNION { { [n \in S |-> [id |-> IF observed THEN generateDeterministicUUID("F1", n)
                                   ELSE "",
                            name |-> n, controls |-> c[n]]]
              : c \in [S -> ControlMaps(observed) \ {<<>>}] }
            : S \in SUBSET SecNames }

\* encode: the controls of every section, then the sections
EncodeTree(tree) ==
    convertSectionsMapToTerraformSet(
        [n \in DOMAIN tree |->
            [tree[n] EXCEPT !.controls = convertControlsMapToTerraformSet(@)]])

\* decode: the sections, then the controls of every section
DecodeTree(sectionsSet) ==
    LET sectionsMap == convertTerraformSetToSectionsMap(sectionsSet)
    IN [n \in DOMAIN sectionsMap |->
            [sectionsMap[n] EXCEPT !.controls = convertTerraformSetToControlsMap(@)]]

CodecInit ==
    /\ tfstate = NoState
    /\ rFw = NoFw
    /\ rCtl = {}
    /\ nextFw = 0
    /\ nextCtl = 0
    /\ pc = "codec"
    /\ \E observed \in BOOLEAN : \E tree \in CodecTrees(observed) :
         /\ req = [op |-> "Codec", observed |-> observed]
         /\ loc = [tree |-> tree, decoded |-> <<>>]
    /\ diags = NoDiags
    /\ calls = {}
    /\ nOps = 0
    /\ nFail = 0

CodecEncode ==
    /\ pc = "codec"
    /\ pc' = "encoded"
    /\ tfstate' = [NoState EXCEPT !.exists = TRUE, !.name = "F1",
                                  !.sections = EncodeTree(loc.tree)]
    /\ UNCHANGED <<rFw, rCtl, nextFw, nextCtl, req, loc, diags, calls, nOps, nFail>>

CodecDecode ==
    /\ pc = "encoded"
    /\ pc' = "decoded"
    /\ loc' = [loc EXCEPT !.decoded = DecodeTree(tfstate.sections)]
    /\ UNCHANGED <<tfstate, rFw, rCtl, nextFw, nextCtl, req, diags, calls, nOps, nFail>>

CodecNext == CodecEncode \/ CodecDecode

CodecSpec == CodecInit /\ [][CodecNext]_vars

----------------------------------------------------------------------------
(* The identity generator on its own: it is called for a framework name    *)
(* and a section name, then again for the same names, for another          *)
(* framework name, and for another framework name and section name         *)

DeriveNames == {"F1", "F2", "S1", "S2", "a", "a:b", "b:c", "c"}

DeriveInit ==
    /\ tfstate = NoState
    /\ rFw = NoFw
    /\ rCtl = {}
    /\ nextFw = 0
    /\ nextCtl = 0
    /\ pc = "derive"
    /\ req = [op |-> "Derive"]
    /\ \E p1 \in DeriveNames, p2 \in DeriveNames, c \in DeriveNames, c2 \in DeriveNames :
         loc = [p1 |-> p1, p2 |-> p2, c |-> c, c2 |-> c2,
                first |-> "", again |-> "", other |-> "", cross |-> ""]
    /\ diags = NoDiags
    /\ calls = {}
    /\ nOps = 0
    /\ nFail = 0

DeriveFirst ==
    /\ pc = "derive"
    /\ pc' = "derive_again"
    /\ loc' = [loc EXCEPT !.first = generateDeterministicUUID(loc.p1, loc.c)]
    /\ UNCHANGED <<tfstate, rFw, rCtl, nextFw, nextCtl, req, diags, calls, nOps, nFail>>

DeriveAgain ==
    /\ pc = "derive_again"
    /\ pc' = "derived"
    /\ loc' = [loc EXCEPT !.again = generateDeterministicUUID(loc.p1, loc.c),
                          !.other = generateDeterministicUUID(loc.p2, loc.c),
                          !.cross = generateDeterministicUUID(loc.p2, loc.c2)]
    /\ UNCHANGED <<tfstate, rFw, rCtl, nextFw, nextCtl, req, diags, calls, nOps, nFail>>

DeriveNext == DeriveFirst \/ DeriveAgain

DeriveSpec == DeriveInit /\ [][DeriveNext]_vars

----------------------------------------------------------------------------
(* The detection of section renames on its own: the prior and the declared *)
(* sections are decoded to maps, detectSectionRenames compares them, and   *)
(* handleSectionRenames issues a rename call for every pair it returns     *)

RenameSecNames == {"S1", "S2", "S3"}

\* the sections of a prior state: every section with its derived identifier
RenameStateSections ==
    {KnownSet({[id |-> generateDeterministicUUID("F1", n), name |-> n,
                controls |-> KnownSet({})] : n \in N})
     : N \in SUBSET SecNames}

\* the sections of a plan: a section carries the identifier of a section of
\* the prior state or none, no identifier twice
RenamePlanSections(stateSections) ==
    LET ids == {x.id : x \in stateSections.elems} \cup {""}
    IN UNION { { KnownSet({[id |-> f[n], name |-> n, controls |-> KnownSet({})] : n \in N})
                 : f \in {g \in [N -> ids] :
                            \A m, n \in N : (m # n /\ g[m] # "") => g[m] # g[n]} }
               : N \in SUBSET RenameSecNames }

\* detectSectionRenames: for every key of the plan's map that is a key of the
\* state's map with another name under it, the pair state name -> plan name
detectSectionRenames(stateSections, planSections) ==
    LET hits == {k \in DOMAIN planSections :
                    /\ k \in DOMAIN stateSections
                    /\ stateSections[k].name # planSections[k].name}
    IN [stateName \in {stateSections[k].name : k \in hits} |->
          planSections[CHOOSE k \in hits : stateSections[k].name = stateName].name]

RenameInit ==
    /\ tfstate = NoState
    /\ rFw = [exists |-> TRUE, id |-> "f1", name |-> "F1", active |-> FALSE]
    /\ rCtl = {}
    /\ nextFw = 1
    /\ nextCtl = 0
    /\ pc = "rename"
    /\ \E st \in RenameStateSections : \E pl \in RenamePlanSections(st) :
         req = [op |-> "Rename",
                plan |-> [NoState EXCEPT !.exists = TRUE, !.id = "f1", !.name = "F1",
                                         !.sections = pl],
                state |-> [NoState EXCEPT !.exists = TRUE, !.id = "f1", !.name = "F1",
                                          !.sections = st]]
    /\ loc = [stateSections |-> <<>>, planSections |-> <<>>, renames |-> <<>>]
    /\ diags = NoDiags
    /\ calls = {}
    /\ nOps = 0
    /\ nFail = 0

\* the decoding of the state's and the plan's sections
RenameDecode ==
    /\ pc = "rename"
    /\ pc' = "rename_detect"
    /\ loc' = [loc EXCEPT
                 !.stateSections = convertTerraformSetToSectionsMap(req.state.sections),
                 !.planSections = convertTerraformSetToSectionsMap(req.plan.sections)]
    /\ UNCHANGED <<tfstate, rFw, rCtl, nextFw, nextCtl, req, diags, calls, nOps, nFail>>

RenameDetect ==
    /\ pc = "rename_detect"
    /\ pc' = "rename_handle"
    /\ loc' = [loc EXCEPT !.renames = detectSectionRenames(loc.stateSections,
                                                           loc.planSections)]
    /\ UNCHANGED <<tfstate, rFw, rCtl, nextFw, nextCtl, req, diags, calls, nOps, nFail>>

\* handleSectionRenames: RenameSectionComplianceFramework for every pair, an
\* error for every call that fails
RenameHandle ==
    /\ pc = "rename_handle"
    /\ pc' = "renamed"
    /\ \E failed \in SUBSET DOMAIN loc.renames :
         /\ calls' = AddCalls(calls,
                        {[NoCall EXCEPT !.op = "secRename", !.id = req.plan.id, !.sec = old,
                                        !.name = loc.renames[old], !.ok = old \notin failed]
                         : old \in DOMAIN loc.renames})
         /\ diags' = IF failed # {} THEN AddError(diags) ELSE diags
    /\ UNCHANGED <<tfstate, rFw, rCtl, nextFw, nextCtl, req, loc, nOps, nFail>>

RenameNext == RenameDecode \/ RenameDetect \/ RenameHandle

RenameSpec == RenameInit /\ [][RenameNext]_vars

----------------------------------------------------------------------------
(* Properties *)

\* the controls the remote store holds for the framework, as
\* <<section, name, rules>>
RemoteTriples ==
    {<<c.section, c.name, c.rules>> : c \in {x \in rCtl : rFw.exists /\ x.fw = rFw.id}}

\* the controls a sections collection declares, as <<section, name, rules>>
DesiredTriples(sections) ==
    UNION { {<<s.name, c.name, c.rules.elems>> : c \in s.controls.elems}
            : s \in sections.elems }

CallsOf(op) == {c \in calls : c.op = op}

UpdateReturnedOk == req.op = "Update" /\ pc = "done" /\ ~diags.err

\* no remote call of the running operation has failed
AllCallsOk == \A c \in calls : c.ok

\* C1 (as claimed): after an Update that returns without error and whose plan
\* declares sections, the <<section, control name, rule set>> triples the
\* remote store holds for the framework are exactly the declared ones. It is
\* stated for the Updates none of whose remote calls fails.
C1_Convergence ==
    (UpdateReturnedOk /\ AllCallsOk /\ req.plan.sections.known)
        => RemoteTriples = DesiredTriples(req.plan.sections)

\* C2 (as claimed): when a declared control carries the identifier X of a
\* control of the prior state whose name or section differs, the
\* reconciliation returns a control with identifier X, and no create call is
\* issued for the declared control and no delete call for X. It is stated for
\* the Updates none of whose remote calls fails.
C2_UpdatePreservesIdentity ==
    (req.op = "Update" /\ AllCallsOk /\ req.plan.sections.known) =>
        \A ps \in req.plan.sections.elems : \A d \in ps.controls.elems :
          \A ss \in req.state.sections.elems : \A o \in ss.controls.elems :
            (d.id # "" /\ d.id = o.id /\ (d.name # o.name \/ ps.name # ss.name)) =>
                /\ \A c \in CallsOf("ctlDelete") : d.id \notin c.ids
                /\ \A c \in CallsOf("ctlCreate") : ~(c.sec = ps.name /\ c.name = ControlKey(d))
                /\ (pc \in {"update_del", "update_read"} \/ UpdateReturnedOk)
                      => \E u \in loc.updated : u.control.id = d.id

\* the Update renames the section `old` of the prior state to `new`, which
\* keeps its controls with their identifiers, and changes nothing else
RenamesSection(old, new) ==
    /\ req.op = "Update"
    /\ req.plan.name = req.state.name
    /\ req.plan.active = req.state.active
    /\ old \in req.state.sections.elems
    /\ new \in req.plan.sections.elems
    /\ old.name # new.name
    /\ new.controls = old.controls
    /\ {[name |-> s.name, controls |-> s.controls] : s \in req.state.sections.elems \ {old}}
         = {[name |-> s.name, controls |-> s.controls] : s \in req.plan.sections.elems \ {new}}

\* C3 (as claimed): an Update that only renames a section holding two
\* controls issues no control-create and no control-delete call, and every
\* control identifier of before is still held by the remote store. It is
\* stated for the Updates none of whose remote calls fails.
C3_RenameIsNotReplace ==
    \A old \in req.state.sections.elems : \A new \in req.plan.sections.elems :
        (RenamesSection(old, new) /\ AllCallsOk /\ Cardinality(old.controls.elems) = 2) =>
            /\ CallsOf("ctlCreate") = {}
            /\ CallsOf("ctlDelete") = {}
            /\ \A c \in old.controls.elems : RemoteHas(c.id)

\* what a section declares: its controls without their identifiers
Declared(section) ==
    {[name |-> c.name, description |-> c.description, rules |-> c.rules]
     : c \in section.controls.elems}

\* the configuration renames the section `old` of the prior state to `new`
ConfigRenamesSection(old, new) ==
    /\ req.op = "Update"
    /\ old \in req.state.sections.elems
    /\ new \in req.plan.sections.elems
    /\ old.name # new.name
    /\ Declared(new) = Declared(old)
    /\ \A s \in req.state.sections.elems : s.name # new.name
    /\ \A s \in req.plan.sections.elems : s.name # old.name

\* C4 (as claimed): when an Update renames a section, the state persisted
\* after the Update holds the section under its new name with the identifier
\* it had before. It is stated for the Updates none of whose remote calls
\* fails.
C4_SectionIdSurvivesRename ==
    \A old \in req.state.sections.elems : \A new \in req.plan.sections.elems :
        (ConfigRenamesSection(old, new) /\ UpdateReturnedOk /\ AllCallsOk) =>
            \E s \in tfstate.sections.elems : s.name = new.name /\ s.id = old.id

\* the Update has returned with the error of the validation of active, before
\* any remote call
ActiveGuardFailed ==
    /\ req.op = "Update"
    /\ ~loc.rejected
    /\ pc = "done"
    /\ diags.err
    /\ calls = {}

ActiveGuardRejects ==
    /\ req.op = "Update"
    /\ ~loc.rejected
    /\ validateActiveFieldTransition(req.state.active, req.plan.active).err

\* C6: when the validation of active rejects an Update, the Update has ended
\* with an error, no remote call has been issued and the persisted state is
\* the prior state.
C6_UpdateFailsClosed ==
    ActiveGuardRejects =>
        /\ pc = "done"
        /\ diags.err
        /\ calls = {}
        /\ tfstate = req.state

C6_Witness ==
    /\ ActiveGuardRejects
    /\ pc = "done"
    /\ calls = {}
    /\ tfstate = req.state
    /\ tfstate.sections.known
    /\ rFw.active

HasEmptySection(sections) ==
    sections.known /\ \E s \in sections.elems : s.controls.elems = {}

\* C8: a Create or an Update whose configuration declares a section without
\* controls ends with the error of the configuration validation, with no
\* remote call issued and the persisted state as it was.
C8_EmptySectionRejection ==
    (req.op \in {"Create", "Update"} /\ HasEmptySection(req.plan.sections)) =>
        /\ pc = "done"
        /\ diags.err
        /\ loc.rejected
        /\ calls = {}
        /\ tfstate = req.state

C8_Witness ==
    /\ req.op = "Create"
    /\ HasEmptySection(req.plan.sections)
    /\ \E s \in req.plan.sections.elems : s.controls.elems # {}
    /\ loc.rejected
    /\ calls = {}
    /\ ~rFw.exists

\* the persisted state holds the identifier the framework creation returned
FrameworkIdPersisted ==
    /\ tfstate.exists
    /\ \E f \in CallsOf("fwCreate") : f.ok /\ f.id # "" /\ tfstate.id = f.id

\* C9: in a Create the framework's identifier is persisted before the first
\* control-create call is issued, and when the creation of a control or the
\* assignment of its rules fails the persisted state still holds it.
C9_CreateOrdering ==
    req.op = "Create" =>
        /\ pc \in {"ctl", "new_rules"} => FrameworkIdPersisted
        /\ CallsOf("ctlCreate") # {} => FrameworkIdPersisted
        /\ (pc = "done" /\ \E c \in calls : c.op \in {"ctlCreate", "rules"} /\ ~c.ok)
              => (diags.err /\ FrameworkIdPersisted)

C9_Witness ==
    /\ req.op = "Create"
    /\ pc = "done"
    /\ \E c \in CallsOf("rules") : ~c.ok
    /\ FrameworkIdPersisted
    /\ tfstate.name = ""

\* C10: a Delete whose query by framework name succeeds issues exactly one
\* control-delete call, with every identifier the query returned, and after
\* it exactly one framework-delete call, also when the control-delete call
\* fails.
C10_TeardownBreadth ==
    \A q \in CallsOf("ctlQuery") :
        (req.op = "Delete" /\ q.ok) =>
            /\ q.name = req.state.name
            /\ Cardinality(CallsOf("ctlDelete")) = 1
            /\ \A c \in CallsOf("ctlDelete") :
                 /\ c.ids = q.ids
                 /\ c.ok => RemoteQueryControls(req.state.name) = {}
            /\ pc \in {"delete_fw", "done"}
            /\ pc = "delete_fw" => CallsOf("fwDelete") = {}
            /\ pc = "done" =>
                 /\ Cardinality(CallsOf("fwDelete")) = 1
                 /\ \A c \in CallsOf("fwDelete") : c.id = req.state.id

C10_Witness ==
    /\ req.op = "Delete"
    /\ pc = "done"
    /\ \E c \in CallsOf("ctlDelete") :
         ~c.ok /\ Cardinality(c.ids) = 2 /\ Cardinality({x.section : x \in rCtl}) = 2
    /\ \E c \in CallsOf("fwDelete") : c.ok

\* C11: when the framework-delete call of a Delete reports the framework as
\* not found, the Delete ends without error and the resource is removed from
\* the persisted state.
C11_DeleteAbsentIsSuccess ==
    (req.op = "Delete" /\ \E c \in CallsOf("fwDelete") : c.notFound) =>
        /\ pc = "done"
        /\ ~diags.err
        /\ ~tfstate.exists

C11_Witness ==
    /\ req.op = "Delete"
    /\ pc = "done"
    /\ \E c \in CallsOf("fwDelete") : c.notFound /\ c.id = req.state.id /\ c.id # ""
    /\ ~rFw.exists
    /\ ~diags.err

OneControlWithRules ==
    KnownSet({[id |-> "", name |-> "S1",
               controls |-> KnownSet({[id |-> "", name |-> "A", description |-> "d1",
                                       rules |-> KnownSet({"r1", "r2"})]})]})

\* C13: a Create of {S1: {A: rules {r1, r2}}} issues at most one
\* control-create call and at most one rule-assignment call; when it ends
\* without error it has issued exactly one control-create call, for A under
\* S1, and exactly one rule-assignment call, with {r1, r2} for the created
\* control, and it persists S1 with the identifier derived from the
\* framework's name and "S1".
C13_CreateEndToEnd ==
    (req.op = "Create" /\ req.plan.sections = OneControlWithRules) =>
        /\ Cardinality(CallsOf("ctlCreate")) <= 1
        /\ Cardinality(CallsOf("rules")) <= 1
        /\ (pc = "done" /\ ~diags.err) =>
             \E c \in CallsOf("ctlCreate") : \E r \in CallsOf("rules") :
                /\ CallsOf("ctlCreate") = {c}
                /\ CallsOf("rules") = {r}
                /\ c.ok /\ c.sec = "S1" /\ c.name = "A" /\ c.fw = tfstate.id
                /\ r.ok /\ r.id = c.id /\ r.rules = {"r1", "r2"}
                /\ rCtl = {[id |-> c.id, fw |-> tfstate.id, section |-> "S1", name |-> "A",
                            requirement |-> c.id, description |-> "d1",
                            rules |-> {"r1", "r2"}]}
                /\ tfstate.sections =
                     KnownSet({[id |-> generateDeterministicUUID(req.plan.name, "S1"),
                                name |-> "S1",
                                controls |-> KnownSet({[id |-> c.id, name |-> "A",
                                                        description |-> "d1",
                                                        rules |-> KnownSet({"r1", "r2"})]})]})

C13_Witness ==
    /\ req.op = "Create"
    /\ req.plan.sections = OneControlWithRules
    /\ pc = "done"
    /\ ~diags.err
    /\ Cardinality(CallsOf("rules")) = 1
    /\ \E x \in tfstate.sections.elems : x.id = "F1:S1"

\* the Update changes only the rules of the control `o` of the prior state,
\* from {r1, r2} to the empty set: `d` is the declared control
ChangesOnlyRules(o, d) ==
    /\ req.op = "Update"
    /\ req.plan.name = req.state.name
    /\ req.plan.active = req.state.active
    /\ o.rules = KnownSet({"r1", "r2"})
    /\ d = [o EXCEPT !.rules = KnownSet({})]
    /\ o.id # ""
    /\ \E ss \in req.state.sections.elems : \E ps \in req.plan.sections.elems :
         /\ ss.name = ps.name
         /\ o \in ss.controls.elems
         /\ ps.controls.elems = (ss.controls.elems \ {o}) \cup {d}
         /\ {[name |-> x.name, controls |-> x.controls] : x \in req.state.sections.elems \ {ss}}
              = {[name |-> x.name, controls |-> x.controls] : x \in req.plan.sections.elems \ {ps}}

\* C14 (as claimed): an Update that only changes the rules of a control from
\* {r1, r2} to the empty set issues exactly one rule-replacement call, with
\* the empty set for that control, and no control-update, control-create or
\* control-delete call. It is stated for the Updates none of whose remote
\* calls fails.
C14_RulesOnlyChange ==
    \A o \in StateControls(req.state) : \A d \in StateControls(req.plan) :
        (ChangesOnlyRules(o, d) /\ AllCallsOk) =>
            /\ CallsOf("ctlUpdate") = {}
            /\ CallsOf("ctlCreate") = {}
            /\ CallsOf("ctlDelete") = {}
            /\ \A r \in CallsOf("rules") : r.id = o.id /\ r.rules = {}
            /\ Cardinality(CallsOf("rules")) <= 1
            /\ pc \in {"update_read", "done"} => Cardinality(CallsOf("rules")) = 1

\* C15 (as claimed): for every tree given as maps keyed by name, of the
\* desired shape (no control identifiers) and of the observed shape (every
\* control with its identifier), decoding the encoded tree gives the tree.
C15_CodecRoundTrip ==
    pc = "decoded" => loc.decoded = loc.tree

\* C16: the generator returns the same identifier for the same framework
\* name and section name, and different identifiers for the same section
\* name under two different framework names (the hash taken as
\* collision-free on distinct byte strings).
C16_IdentityDeterminism ==
    pc = "derived" =>
        /\ loc.again = loc.first
        /\ loc.p1 # loc.p2 => loc.other # loc.first

C16_Witness ==
    /\ pc = "derived"
    /\ loc.p1 = "a:b"
    /\ loc.p2 = "a"
    /\ loc.c = "c"
    /\ loc.first = "a:b:c"
    /\ loc.other = "a:c"

\* the declared control `d` of the plan's section `ps` carries the identifier
\* of the control `o` of the prior state's section `ss`
MatchedByID(ps, d, ss, o) ==
    /\ req.op = "Update"
    /\ ps \in req.plan.sections.elems
    /\ d \in ps.controls.elems
    /\ ss \in req.state.sections.elems
    /\ o \in ss.controls.elems
    /\ d.id # ""
    /\ d.id = o.id

\* C17 (as claimed): when a declared control carries the identifier of a
\* control of the prior state but sits under another section name, then
\* after the Update the remote store holds the control of that identifier
\* with the declared section name. It is stated for the Updates none of whose
\* remote calls fails.
C17_MoveIsFieldUpdate ==
    \A ps \in req.plan.sections.elems : \A d \in ps.controls.elems :
      \A ss \in req.state.sections.elems : \A o \in ss.controls.elems :
        (MatchedByID(ps, d, ss, o) /\ ps.name # ss.name /\ UpdateReturnedOk /\ AllCallsOk) =>
            \E c \in rCtl : c.id = d.id /\ c.section = ps.name

\* C18 (as claimed): for every declared control matched to a control of the
\* prior state by identifier, the name sent in the control-update call and
\* the control's name in the reconciliation's output both equal the declared
\* name. It is stated for the Updates none of whose remote calls fails.
C18_NameCarriedByUpdate ==
    \A ps \in req.plan.sections.elems : \A d \in ps.controls.elems :
      \A ss \in req.state.sections.elems : \A o \in ss.controls.elems :
        (MatchedByID(ps, d, ss, o) /\ AllCallsOk) =>
            /\ \A c \in CallsOf("ctlUpdate") : c.id = d.id => c.name = d.name
            /\ \A u \in loc.updated : u.control.id = d.id => u.control.name = d.name

\* the sections without their identifiers
Unidentified(sections) ==
    {[name |-> x.name, controls |-> x.controls] : x \in sections.elems}

\* C19 (as claimed): an Update whose plan's sections equal the prior state's
\* (the same identifiers, names, sections and rules for every control)
\* issues no control-create, control-update, control-delete or
\* rule-replacement call. It is stated for the Updates none of whose remote
\* calls fails.
C19_NoOpUpdateIsMinimal ==
    (/\ req.op = "Update"
     /\ AllCallsOk
     /\ req.state.sections.known
     /\ req.plan.sections.known
     /\ StateControls(req.state) # {}
     /\ Unidentified(req.plan.sections) = Unidentified(req.state.sections)) =>
        /\ CallsOf("ctlCreate") = {}
        /\ CallsOf("ctlUpdate") = {}
        /\ CallsOf("ctlDelete") = {}
        /\ CallsOf("rules") = {}

\* no two controls of the framework have the same section and name
RemoteNamesUnique ==
    \A x, y \in rCtl :
        (x.fw = y.fw /\ x.section = y.section /\ x.name = y.name) => x = y

\* C20 (as claimed): after every remote call of an Update no two controls of
\* the framework in one section have the same name. It is stated for the
\* Updates none of whose remote calls fails.
C20_NamesUniqueAtEveryInstant ==
    (req.op = "Update" /\ AllCallsOk) => RemoteNamesUnique

\* the declared controls that need creating, as <<section, control>>: in a
\* Create all of them, in an Update those that carry no identifier of the
\* prior state
NeedCreating ==
    UNION { {<<s.name, d>> : d \in {x \in s.controls.elems :
                                      \/ req.op = "Create"
                                      \/ x.id \notin {o.id : o \in StateControls(req.state)}}}
            : s \in req.plan.sections.elems }

\* C21 (as claimed): when a control-create call of a Create or an Update has
\* failed, the operation ends with a control-create call issued for every
\* other declared control that needs creating, in the same section and in
\* every other section.
C21_SiblingIndependence ==
    (/\ req.op \in {"Create", "Update"}
     /\ pc = "done"
     /\ \E c \in CallsOf("ctlCreate") : ~c.ok) =>
        \A n \in NeedCreating :
            \E c \in CallsOf("ctlCreate") : c.sec = n[1] /\ c.name = n[2].name

\* C22 (as claimed): when the control-update call for a matched control of an
\* Update fails, no rule-replacement call is issued for that control in the
\* Update, and the Update's diagnostics hold an error.
C22_PerEntityAbort ==
    req.op = "Update" =>
        \A u \in CallsOf("ctlUpdate") :
            ~u.ok => /\ diags.err
                     /\ \A r \in CallsOf("rules") : r.id # u.id

\* the framework call of the running Create or Update has failed
FrameworkCallFailed ==
    \E c \in CallsOf("fwCreate") \cup CallsOf("fwUpdate") : ~c.ok

\* C23: when the framework-create call of a Create or the framework-update
\* call of an Update fails, the operation ends with an error, that call is
\* the only remote call it has issued (no control-create, control-update,
\* control-delete, rule-replacement or section-rename call), and the
\* persisted state is the prior state.
C23_FrameworkErrorsAreFatal ==
    FrameworkCallFailed =>
        /\ req.op \in {"Create", "Update"}
        /\ pc = "done"
        /\ diags.err
        /\ Cardinality(calls) = 1
        /\ tfstate = req.state

C23_Witness ==
    /\ req.op = "Update"
    /\ FrameworkCallFailed
    /\ pc = "done"
    /\ req.plan.sections.known
    /\ StateControls(req.state) # StateControls(req.plan)
    /\ rCtl # {}
    /\ tfstate = req.state

\* the delete pass of the running Update is over
DeletePassOver ==
    /\ req.op = "Update"
    /\ req.plan.sections.known
    /\ \/ pc = "update_read"
       \/ pc = "done" /\ CallsOf("ctlQuery") # {}

\* the controls of the prior state whose identifier no declared control
\* carries
StaleControls ==
    {o \in StateControls(req.state) :
        \A d \in StateControls(req.plan) : d.id # o.id}

\* C24: when the delete pass of an Update with declared sections is over,
\* exactly one control-delete call has been issued for every control of the
\* prior state whose identifier no declared control carries.
C24_StaleControlsAreDeleted ==
    DeletePassOver =>
        \A o \in StaleControls :
            Cardinality({c \in CallsOf("ctlDelete") : o.id \in c.ids}) = 1

C24_Witness ==
    /\ DeletePassOver
    /\ pc = "done"
    /\ ~diags.err
    /\ \E o \in StaleControls : \E k \in StateControls(req.state) \ StaleControls :
         \E ps \in req.plan.sections.elems : \E ss \in req.state.sections.elems :
           /\ ps.name = ss.name
           /\ o \in ss.controls.elems
           /\ k \in ss.controls.elems
           /\ \E c \in CallsOf("ctlDelete") : c.ok /\ c.ids = {o.id}
           /\ \A c \in CallsOf("ctlDelete") : k.id \notin c.ids

\* a control-delete call of the delete pass of the running Update has failed,
\* and no other remote call of the Update
DeleteFailedOnly ==
    /\ req.op = "Update"
    /\ req.plan.sections.known
    /\ \E c \in CallsOf("ctlDelete") : ~c.ok
    /\ \A c \in calls : ~c.ok => c.op = "ctlDelete"

\* C25: when a control-delete call of the delete pass of an Update fails, the
\* failure is recorded as a warning and not as an error, the pass goes on to
\* issue a control-delete call for every other control it removes, and the
\* Update ends without error with the state written from the read-back tree.
C25_BestEffortDeletion ==
    DeleteFailedOnly =>
        /\ diags.warn
        /\ ~diags.err
        /\ pc \in {"update_del", "update_read", "done"}
        /\ pc \in {"update_read", "done"} =>
             \A r \in RemovedControls(loc.existing, loc.sections) :
                \E c \in CallsOf("ctlDelete") : c.ids = {r[3]}
        /\ pc = "done" =>
             /\ tfstate.exists
             /\ tfstate.name = req.plan.name
             /\ tfstate.sections.known
             /\ StateControls(tfstate) # {}
             /\ \A c \in StateControls(tfstate) : RemoteHas(c.id)

C25_Witness ==
    /\ DeleteFailedOnly
    /\ pc = "done"
    /\ \E c \in CallsOf("ctlDelete") : ~c.ok /\ \E x \in rCtl : x.id \in c.ids
    /\ \E c \in CallsOf("ctlDelete") : c.ok
    /\ tfstate # req.state

\* the loop over the declared controls of the running Create or Update is
\* over and no remote call has failed
ControlPassOver ==
    /\ req.op \in {"Create", "Update"}
    /\ req.plan.sections.known
    /\ AllCallsOk
    /\ \/ pc \in {"update_del", "update_read"}
       \/ pc = "done" /\ ~diags.err

\* C26: for a declared control that carries no identifier of the prior
\* state, the pass issues exactly one control-create call, with the declared
\* section name, control name and description; the output holds the control
\* with the identifier that call returned; and exactly one rule-assignment
\* call is issued for that identifier, with the declared rules, when they are
\* not empty, and none when they are empty or absent. It is stated for the
\* passes none of whose remote calls fails.
C26_CreatePath ==
    ControlPassOver =>
        \A n \in NeedCreating :
            LET created == {c \in CallsOf("ctlCreate") : c.sec = n[1] /\ c.name = n[2].name}
            IN /\ Cardinality(created) = 1
               /\ \A c \in created :
                    /\ c.desc = n[2].description
                    /\ c.fw = loc.fw.id
                    /\ c.id # ""
                    /\ \E u \in loc.updated :
                         /\ u.sec = n[1]
                         /\ u.control = [n[2] EXCEPT !.id = c.id]
                    /\ LET assigned == {r \in CallsOf("rules") : r.id = c.id}
                       IN IF n[2].rules.known /\ n[2].rules.elems # {}
                          THEN /\ Cardinality(assigned) = 1
                               /\ \A r \in assigned : r.rules = n[2].rules.elems
                          ELSE assigned = {}

C26_Witness ==
    /\ ControlPassOver
    /\ req.op = "Update"
    /\ pc = "done"
    /\ \E n \in NeedCreating : \E m \in NeedCreating :
         /\ n[2].rules = KnownSet({"r1", "r2"})
         /\ m[2].rules = KnownSet({})
         /\ \E c \in CallsOf("ctlCreate") : \E r \in CallsOf("rules") :
              c.sec = n[1] /\ c.name = n[2].name /\ r.id = c.id
    /\ StateControls(req.state) # {}

\* C27 (as claimed): for the prior and the declared sections as decoded by
\* the codec, detectSectionRenames returns the pair old name -> new name for
\* every section that has the same identifier in both and another name, and
\* no pair for a section whose name did not change.
C27_SectionRenameDetection ==
    pc \in {"rename_handle", "renamed"} =>
        /\ \A ss \in req.state.sections.elems : \A ps \in req.plan.sections.elems :
             (ss.id = ps.id /\ ss.name # ps.name) =>
                /\ ss.name \in DOMAIN loc.renames
                /\ loc.renames[ss.name] = ps.name
        /\ \A ss \in req.state.sections.elems : \A ps \in req.plan.sections.elems :
             (ss.id = ps.id /\ ss.name = ps.name) => ss.name \notin DOMAIN loc.renames

\* the controls the remote store holds for the framework of identifier `id`
RemoteControlsOf(id) == {x \in rCtl : x.fw = id}

\* C28 (as claimed): when a Delete is about to issue the framework-delete
\* call, and after it has issued it, the remote store holds no control of
\* the framework, whatever the outcome of the control-delete call before.
C28_NoControlsAtFrameworkDelete ==
    (req.op = "Delete" /\ (pc = "delete_fw" \/ CallsOf("fwDelete") # {})) =>
        RemoteControlsOf(req.state.id) = {}

\* the prior state is the one a failed Create leaves: the framework's
\* identifier and nothing else
PartialState(state) ==
    /\ state.exists
    /\ state.id # ""
    /\ state.name = ""

\* C29 (as claimed): a Delete on the state a failed Create persisted issues a
\* control-delete call that covers every control the Create created, so that
\* none of them is left in the remote store. It is stated for the Deletes
\* none of whose remote calls fails.
C29_CleanupAfterFailedCreate ==
    (/\ req.op = "Delete"
     /\ PartialState(req.state)
     /\ AllCallsOk
     /\ pc \in {"delete_fw", "done"}) =>
        RemoteControlsOf(req.state.id) = {}

\* the running Update has no declared sections and its prior state has some
SectionsRemoved ==
    /\ req.op = "Update"
    /\ ~req.plan.sections.known
    /\ req.state.sections.known

\* C30: an Update without declared sections whose prior state has sections
\* issues no control-create, control-update or rule-replacement call and at
\* most one control-delete call; when its query by the framework's name
\* succeeds it issues exactly one control-delete call, with every identifier
\* the query returned, and when that call succeeds no control of the
\* framework is left.
C30_UpdateWithSectionsRemoved ==
    SectionsRemoved =>
        /\ CallsOf("ctlCreate") = {}
        /\ CallsOf("ctlUpdate") = {}
        /\ CallsOf("rules") = {}
        /\ Cardinality(CallsOf("ctlDelete")) <= 1
        /\ \A q \in CallsOf("ctlQuery") :
             /\ q.name = req.plan.name
             /\ q.ok => /\ Cardinality(CallsOf("ctlDelete")) = 1
                        /\ \A c \in CallsOf("ctlDelete") :
                             /\ c.ids = q.ids
                             /\ c.ok => RemoteControlsOf(req.plan.id) = {}
        /\ (pc = "done" /\ ~diags.err /\ ~loc.rejected) => CallsOf("ctlQuery") # {}

C30_Witness ==
    /\ SectionsRemoved
    /\ pc = "done"
    /\ ~diags.err
    /\ req.plan.name # req.state.name
    /\ \E c \in CallsOf("ctlDelete") : c.ok /\ Cardinality(c.ids) = 2
    /\ rCtl = {}
    /\ ~tfstate.sections.known

\* the calls of the running operation that create, update or delete a
\* control or replace its rules
ChangingCalls ==
    CallsOf("ctlCreate") \cup CallsOf("ctlUpdate") \cup CallsOf("ctlDelete")
        \cup CallsOf("rules")

\* the calls of the re-read of the controls
ReReadCalls == CallsOf("ctlQuery") \cup CallsOf("ctlGet") \cup CallsOf("ruleQuery")

\* the sections collection holds the controls of the remote store's
\* framework, every one under its section, with its identifier and rules
HoldsRemoteControls(sections) ==
    /\ sections.known
    /\ \A s \in sections.elems : \A c \in s.controls.elems :
         \E x \in RemoteControlsOf(rFw.id) :
            /\ x.id = c.id
            /\ x.name = c.name
            /\ x.section = s.name
            /\ c.rules = KnownSet(x.rules)
    /\ \A x \in RemoteControlsOf(rFw.id) :
         \E s \in sections.elems : \E c \in s.controls.elems :
            s.name = x.section /\ c.name = x.name

\* C31: in an Update the framework-update call is issued before any control
\* or rule call; when the plan declares sections, the re-read of the
\* controls is issued after the last control-create, control-update,
\* control-delete and rule-replacement call (it ends the Update), and the
\* sections the Update persists are those the re-read found in the remote
\* store.
C31_OrderOfStepsInUpdate ==
    req.op = "Update" =>
        /\ (ChangingCalls \cup ReReadCalls) # {} => \E f \in CallsOf("fwUpdate") : f.ok
        /\ pc = "update_fw" => calls = {}
        /\ (req.plan.sections.known /\ ReReadCalls # {}) => pc = "done"
        /\ (req.plan.sections.known /\ pc = "done" /\ ~diags.err) =>
             /\ \E q \in CallsOf("ctlQuery") : q.ok /\ q.name = rFw.name
             /\ HoldsRemoteControls(tfstate.sections)

C31_Witness ==
    /\ UpdateReturnedOk
    /\ req.plan.sections.known
    /\ CallsOf("ctlCreate") # {}
    /\ CallsOf("ctlDelete") # {}
    /\ CallsOf("rules") # {}
    /\ CallsOf("ruleQuery") # {}
    /\ HoldsRemoteControls(tfstate.sections)
    /\ tfstate.sections # req.plan.sections

\* the running operation has ended without error with the sections
\* readControlsForFramework produced written to the state: a Read, or an
\* Update with declared sections
WroteReadSections ==
    /\ pc = "done"
    /\ ~diags.err
    /\ \E q \in CallsOf("ctlQuery") : q.ok
    /\ \/ req.op = "Read"
       \/ req.op = "Update" /\ req.plan.sections.known

\* C32: every section of the tree a Read produces (and the re-read of an
\* Update, the same function) that has the name of a section of the prior
\* state with a known identifier keeps that identifier; every other section
\* has the identifier derived from the remote framework's name and the
\* section's name.
C32_SectionIdentifiersAfterRead ==
    WroteReadSections =>
        \A s \in tfstate.sections.elems :
            LET prior == {p \in req.state.sections.elems : p.name = s.name /\ p.id # ""}
            IN IF prior # {}
               THEN \A p \in prior : s.id = p.id
               ELSE s.id = generateDeterministicUUID(rFw.name, s.name)

C32_Witness ==
    /\ WroteReadSections
    /\ req.op = "Read"
    /\ ~req.state.sections.known
    /\ \E s \in tfstate.sections.elems : s.name = "S2" /\ s.id = "F1:S2"

\* C33: no section without controls is ever persisted: every section of every
\* state a Create, a Read or an Update has written has at least one control.
C33_NoSectionWithoutControls ==
    tfstate.sections.known =>
        \A s \in tfstate.sections.elems :
            s.controls.known /\ s.controls.elems # {}

C33_Witness ==
    /\ UpdateReturnedOk
    /\ \E c \in CallsOf("ctlDelete") : c.ok
    /\ Cardinality(req.state.sections.elems) = 2
    /\ Cardinality(tfstate.sections.elems) = 1
    /\ \A s \in tfstate.sections.elems : s.controls.elems # {}

\* C34 (as claimed): for two different pairs of a parent name and a child
\* name, names with ':' included, the generator hashes different byte
\* strings and so returns different identifiers.
C34_DerivedIdentifiersSeparate ==
    (pc = "derived" /\ <<loc.p1, loc.c>> # <<loc.p2, loc.c2>>) =>
        loc.first # loc.cross

\* C35 (as claimed): in the decoded maps every section is stored under its
\* own name and every control under its own name, whether or not it carries
\* an identifier.
C35_DecodeKeysByName ==
    pc = "decoded" =>
        \A n \in DOMAIN loc.decoded :
            /\ loc.decoded[n].name = n
            /\ \A k \in DOMAIN loc.decoded[n].controls :
                 loc.decoded[n].controls[k].name = k

\* the control query of the running operation found no control
FoundNoControls == \E q \in CallsOf("ctlQuery") : q.ok /\ q.ids = {}

\* C36: the empty section map is encoded as a present collection with zero
\* elements, never as an absent one: a Create whose plan declares the empty
\* collection persists a present empty collection, and so does the re-read
\* of an Update, and a Read whose prior state has sections, when the remote
\* store has no control of the framework.
C36_EmptyIsNotAbsent ==
    (pc = "done" /\ ~diags.err) =>
        /\ (req.op = "Create" /\ req.plan.sections = KnownSet({})) =>
             tfstate.sections = KnownSet({})
        /\ (WroteReadSections /\ FoundNoControls
              /\ (req.op = "Update" \/ req.state.sections.known)) =>
             tfstate.sections = KnownSet({})

C36_Witness ==
    /\ UpdateReturnedOk
    /\ WroteReadSections
    /\ FoundNoControls
    /\ CallsOf("ctlDelete") # {}
    /\ tfstate.sections = KnownSet({})
    /\ req.state.sections.elems # {}

\* C37 (as claimed): a Read whose control query returns N controls issues
\* exactly one control-details call and exactly N rule-query calls. It is
\* stated for the Reads none of whose remote calls fails.
C37_OneRuleQueryPerControl ==
    (req.op = "Read" /\ pc = "done" /\ AllCallsOk) =>
        \A q \in CallsOf("ctlQuery") :
            /\ Cardinality(CallsOf("ctlGet")) = 1
            /\ Cardinality(CallsOf("ruleQuery")) = Cardinality(q.ids)

\* C37 (amended): a Read whose control query returns no control issues no
\* control-details and no rule-query call; one whose control query returns
\* N >= 1 controls issues exactly one control-details call, for those N
\* identifiers, and, when that call succeeds, exactly N rule-query calls, one
\* for each control, by the framework's name and the control's section name
\* and requirement, whether or not one of them fails.
C37_OneRuleQueryPerControlFound ==
    (req.op = "Read" /\ pc = "done") =>
        \A q \in CallsOf("ctlQuery") :
            q.ok =>
                IF q.ids = {}
                THEN CallsOf("ctlGet") = {} /\ CallsOf("ruleQuery") = {}
                ELSE /\ Cardinality(CallsOf("ctlGet")) = 1
                     /\ \A g \in CallsOf("ctlGet") :
                          /\ g.ids = q.ids
                          /\ ~g.ok => CallsOf("ruleQuery") = {}
                          /\ g.ok =>
                               /\ Cardinality(CallsOf("ruleQuery")) = Cardinality(q.ids)
                               /\ \A x \in rCtl :
                                    x.id \in q.ids =>
                                      \E r \in CallsOf("ruleQuery") :
                                         /\ r.id = x.id
                                         /\ r.name = rFw.name
                                         /\ r.sec = x.section
                                         /\ r.requirement = x.requirement

C37_Witness ==
    /\ req.op = "Read"
    /\ pc = "done"
    /\ \E q \in CallsOf("ctlQuery") : Cardinality(q.ids) = 2
    /\ \E r \in CallsOf("ruleQuery") : ~r.ok
    /\ Cardinality(CallsOf("ruleQuery")) = 2

\* C38: when the control query of a Delete fails, the Delete ends with an
\* error, that query is the only remote call it has issued (no
\* control-delete and no framework-delete call), and the persisted state is
\* the prior state; a framework the remote store held is still there.
C38_DeleteStopsWhenQueryFails ==
    (req.op = "Delete" /\ \E q \in CallsOf("ctlQuery") : ~q.ok) =>
        /\ pc = "done"
        /\ diags.err
        /\ CallsOf("ctlDelete") = {}
        /\ CallsOf("fwDelete") = {}
        /\ Cardinality(calls) = 1
        /\ tfstate = req.state

C38_Witness ==
    /\ req.op = "Delete"
    /\ pc = "done"
    /\ \E q \in CallsOf("ctlQuery") : ~q.ok /\ q.name = rFw.name
    /\ rFw.exists
    /\ rFw.id = tfstate.id
    /\ RemoteControlsOf(rFw.id) # {}

\* C39: a Read that ends without error and finds no control of the framework
\* leaves the sections absent when the prior state's sections are absent,
\* and persists a present empty collection when they are present.
C39_ReadDoesNotInventSections ==
    (req.op = "Read" /\ pc = "done" /\ ~diags.err /\ FoundNoControls) =>
        /\ tfstate.exists
        /\ tfstate.sections = IF req.state.sections.known THEN KnownSet({}) ELSE NullSet

C39_Witness ==
    /\ req.op = "Read"
    /\ pc = "done"
    /\ ~diags.err
    /\ FoundNoControls
    /\ ~req.state.sections.known
    /\ ~tfstate.sections.known
    /\ tfstate.name # ""

====
